---- MODULE Spec2Model ----
(***************************************************************************)
(* The pull-request review pipeline: the HTTP endpoint (src/agent/main.py) *)
(* and the orchestrator CodeReviewAgent._run_async_impl                    *)
(* (src/agent/agent.py), one request at a time.                            *)
(*                                                                         *)
(* Strings that the code parses are sequences of tokens, each token a      *)
(* literal piece of text; every other string is an opaque TLA+ string.     *)
(* The reasoning workers (LlmAgent.run_async) are the environment: a       *)
(* delegation either stores a value under its output_key, completes        *)
(* without storing anything, or raises.                                    *)
(***************************************************************************)
EXTENDS Integers, Sequences, FiniteSets, TLC

\* Longest URL path (in tokens, after the scheme-and-host token) a request carries.
MaxBody == 6

----------------------------------------------------------------------------
(* Values *)

\* Python's None, an absent body and the empty dict: the empty function.
NoneV == << >>

\* An assignment that replaces the whole store by the one key.
PutReplacing(st, k, v) == [x \in {k} |-> v]

Put(st, k, v) == [x \in (DOMAIN st) \cup {k} |-> IF x = k THEN v ELSE st[x]]

Get(st, k, default) == IF k \in DOMAIN st THEN st[k] ELSE default

SeqsUpTo(S, n) == UNION {[1..k -> S] : k \in 0..n}

Last(s) == s[Len(s)]

Range(s) == {s[i] : i \in DOMAIN s}

----------------------------------------------------------------------------
(* Pull-request URLs *)

Slash == "/"

PullSep == "/pull/"

GithubHead == "https://github.com/"

Heads == {GithubHead, "https://gitlab.com/"}

DigitTokens == {"7"}

BodyTokens == {Slash, PullSep, "a"} \cup DigitTokens

\* The empty string, and every head followed by at most MaxBody path tokens.
Urls == {<< >>} \cup {<<h>> \o b : h \in Heads, b \in SeqsUpTo(BodyTokens, MaxBody)}

\* The end of the longest run of tokens of class C that starts at position i
\* (i - 1 when s[i] is not in C): what a greedy C+ consumes.
RECURSIVE RunEnd(_, _, _)
RunEnd(s, i, C) == IF i <= Len(s) /\ s[i] \in C THEN RunEnd(s, i + 1, C) ELSE i - 1

\* The tokens [^/] matches: those holding no slash.
NonSlashTokens == BodyTokens \ {Slash, PullSep}

\* Where ([^/]+)/([^/]+)/pull/(\d+) ends each group when matched from position 2:
\* o, r, d are the last positions of owner, repo and number. Each class is
\* disjoint from the separator after it, so the greedy match is the only one.
PathMatch(url) ==
    LET o == RunEnd(url, 2, NonSlashTokens)
        r == RunEnd(url, o + 2, NonSlashTokens)
        d == RunEnd(url, r + 2, DigitTokens)
    IN  [ok |-> /\ o >= 2 /\ o + 1 <= Len(url) /\ url[o + 1] = Slash
                /\ r >= o + 2 /\ r + 1 <= Len(url) /\ url[r + 1] = PullSep
                /\ d >= r + 2,
         o |-> o, r |-> r, d |-> d]

\* A parser whose pattern accepts any host.
ParsePrUrlAnyHost(url) ==
    IF Len(url) = 0 THEN NoneV
    ELSE LET m == PathMatch(url)
         IN  IF m.ok
             THEN [owner |-> SubSeq(url, 2, m.o),
                   repo |-> SubSeq(url, m.o + 2, m.r),
                   pr_number |-> SubSeq(url, m.r + 2, m.d)]
             ELSE NoneV

\* re.match(r'https://github\.com/([^/]+)/([^/]+)/pull/(\d+)', url): anchored at
\* the start only; whatever follows the digits is not looked at.
ParsePrUrl(url) ==
    IF Len(url) = 0 \/ url[1] # GithubHead THEN NoneV
    ELSE LET m == PathMatch(url)
         IN  IF m.ok
             THEN [owner |-> SubSeq(url, 2, m.o),
                   repo |-> SubSeq(url, m.o + 2, m.r),
                   pr_number |-> SubSeq(url, m.r + 2, m.d)]
             ELSE NoneV

----------------------------------------------------------------------------
(* Request normalisation (main.py) *)

KnownCriteria == {"code_quality", "security", "performance", "style", "documentation"}

ValidThresholds == {"low", "medium", "high", "critical"}

\* JSON values a criteria flag may carry, as their literals: the booleans, a
\* number and a string.
JsonFlags == {"true", "false", "0", "'no'"}

\* bool(value): false for False, 0, the empty string and None, true otherwise.
PyBool(v) == v \notin {"false", "0", "''", "null"}

\* A normalisation that copies every supplied key (dict.update).
validate_review_criteria_update(criteria) ==
    [k \in KnownCriteria \cup DOMAIN criteria |->
        IF k \in DOMAIN criteria THEN PyBool(criteria[k]) ELSE TRUE]

validate_review_criteria(criteria) ==
    IF DOMAIN criteria = {} THEN [k \in KnownCriteria |-> TRUE]
    ELSE [k \in KnownCriteria |->
             IF k \in DOMAIN criteria THEN PyBool(criteria[k]) ELSE TRUE]

\* A check that lets every threshold through.
validate_severity_threshold_kept(threshold) == threshold

validate_severity_threshold(threshold) ==
    IF threshold \notin ValidThresholds THEN "low" ELSE threshold

\* The optional fields a request body carries beside pull_request_url.
OptionProfiles ==
    { << >>,
      [review_criteria |-> [security |-> "false", naming |-> "true"],
       severity_threshold |-> "high", post_comments |-> TRUE],
      [review_criteria |-> << >>, severity_threshold |-> "urgent",
       post_comments |-> FALSE],
      [review_criteria |-> [style |-> "0"], post_comments |-> TRUE] }

\* The JSON bodies a request may carry; << >> is a missing or empty body.
Bodies == OptionProfiles \cup
          {("pull_request_url" :> u) @@ p : u \in Urls, p \in OptionProfiles}

----------------------------------------------------------------------------
(* Stages, context-store keys, events *)

VALIDATING == "VALIDATING"

FETCHING == "FETCHING"

ANALYZING == "ANALYZING"

GENERATING == "GENERATING"

STRUCTURING == "STRUCTURING"

POSTING == "POSTING"

FINALIZING == "FINALIZING"

AgentName == "code_review_agent"

MsgNoUrl == <<"No pull_request_url found in session state. Please provide a 'pull_request_url' in the session state.">>

MsgInvalidUrl == <<"Invalid pull request URL format. Expected format: https://github.com/owner/repo/pull/123">>

MsgFetching == <<"Fetching pull request details...">>

MsgFetchFailed == <<"Failed to fetch pull request details.">>

MsgAnalyzing == <<"Analyzing code changes...">>

MsgAnalyzeFailed == <<"Failed to analyze code changes.">>

MsgGenerating == <<"Generating review comments...">>

MsgGenerateFailed == <<"Failed to generate review comments.">>

MsgPosting == <<"Posting review comments to pull request...">>

MsgFinalGenerated == <<"Final result generated">>

MsgCompleted == "Code review completed successfully!"

MsgReviewFailed == "Code review failed."

\* Event(content=Content(role, parts=[Part(text)]), author): text is the list of
\* the pieces an f-string joins.
Event(author, role, text) == [author |-> author, role |-> role, text |-> text]

\* The event on which a worker's output_key value is stored.
WorkerEvent(name) == Event(name, "model", <<"final response">>)

----------------------------------------------------------------------------
(* What the reasoning workers may answer *)

PrDetailsValues == {"pr metadata, changed files, commits", ""}

AnalysisValues == {"categorized analysis"}

RawDraftValues == {"raw draft"}

PostResultValues == {"posted"}

\* Values that conform to the ReviewResult schema (agent.py, class ReviewResult).
ReviewResults ==
    { [review_summary |-> "Looks good", comments_added |-> << >>,
       issues_found |-> << >>, approval_recommendation |-> "approve",
       success |-> TRUE, error |-> "None"],
      [review_summary |-> "Needs work",
       comments_added |-> <<[file_path |-> "a.py", line_number |-> 3,
                             comment |-> "rename", severity |-> "low",
                             category |-> "code_quality"]>>,
       issues_found |-> <<[category |-> "security", severity |-> "high",
                            description |-> "secret", file_path |-> "a.py"]>>,
       approval_recommendation |-> "request_changes",
       success |-> FALSE, error |-> "None"] }

\* A delegation's outcomes: a value stored under output_key, nothing stored, or
\* an exception out of run_async.
Silent == [kind |-> "silent"]

Raises == [kind |-> "raise"]

Stored(v) == [kind |-> "stored", value |-> v]

Outcomes(values) == {Silent, Raises} \cup {Stored(v) : v \in values}

----------------------------------------------------------------------------
(* State *)

VARIABLES
    body,          \* the JSON body of the request (request.get_json())
    pc,            \* where the request's handling stands
    state,         \* ctx.session.state, the context store of the run
    pr_info,       \* _parse_pr_url's result, local to _run_async_impl
    events,        \* the events the run has yielded, in order
    final_result,  \* run_code_review_agent's local final_result
    response,      \* what agent_endpoint returned: [status, body]
    started,       \* history: the stages started, in order
    finished,      \* history: the stages that ran to their end
    status,        \* history: INIT, RUNNING, FAILED, DONE or RAISED
    sandbox,       \* a BashTools instance and one invocation of a capability
    fleet          \* two requests served concurrently by one process

vars == <<body, pc, state, pr_info, events, final_result, response, started,
          finished, status, sandbox, fleet>>

\* The parts of the state a specification does not exercise stay as they are.
Idle == "idle"

pipelineVars == <<body, pc, state, pr_info, events, final_result, response, started,
                  finished, status>>

PipelineIdle ==
    /\ body = << >>
    /\ pc = Idle
    /\ state = << >>
    /\ pr_info = NoneV
    /\ events = << >>
    /\ final_result = NoneV
    /\ response = NoneV
    /\ started = << >>
    /\ finished = {}
    /\ status = "INIT"

Init ==
    /\ body \in Bodies
    /\ pc = "endpoint"
    /\ state = << >>
    /\ pr_info = NoneV
    /\ events = << >>
    /\ final_result = NoneV
    /\ response = NoneV
    /\ started = << >>
    /\ finished = {}
    /\ status = "INIT"
    /\ sandbox = Idle
    /\ fleet = Idle

\* run_code_review_agent's loop body: after each event of the run the session
\* is read back and final_result is taken from it when present.
Capture(st, cur) == IF "final_result" \in DOMAIN st THEN st["final_result"] ELSE cur

\* A gate that lets every stage through.
GateIgnored(key, st) == TRUE

\* The gate after a stage: its output key is in the context store.
GatePassed(key, st) == key \in DOMAIN st

\* ctx.session.state.get("post_comments", False), tested for truth.
PostEnabled(st) == Get(st, "post_comments", FALSE)

\* An orchestrator step that forgets to yield its event.
EmitDropped(role, text) ==
    /\ UNCHANGED events
    /\ final_result' = Capture(state', final_result)

\* The orchestrator yields an event of its own.
Emit(role, text) ==
    /\ events' = Append(events, Event(AgentName, role, text))
    /\ final_result' = Capture(state', final_result)

\* A halt that leaves a result behind in the context store.
HaltWithResult(text) ==
    /\ events' = Append(events, Event(AgentName, "system", text))
    /\ state' = Put(state, "final_result",
                    [review_summary |-> text, success |-> FALSE])
    /\ final_result' = Capture(state', final_result)
    /\ status' = "FAILED"
    /\ pc' = "run_end"
    /\ UNCHANGED started

\* A gate failed, or validation did: one diagnostic event, then return.
Halt(text) ==
    /\ events' = Append(events, Event(AgentName, "system", text))
    /\ final_result' = Capture(state, final_result)
    /\ status' = "FAILED"
    /\ pc' = "run_end"
    /\ UNCHANGED <<state, started>>

----------------------------------------------------------------------------
(* The endpoint *)

SessionState(data) ==
    [pull_request_url |-> data["pull_request_url"],
     review_criteria |-> validate_review_criteria(Get(data, "review_criteria", << >>)),
     severity_threshold |->
         validate_severity_threshold(Get(data, "severity_threshold", "low")),
     post_comments |-> Get(data, "post_comments", FALSE)]

\* A rejection that answers like a completed request.
BadRequestAnsweredOk ==
    [status |-> 200,
     body |-> [success |-> FALSE, error |-> "pull_request_url is required"]]

BadRequest == [status |-> 400,
               body |-> [success |-> FALSE, error |-> "pull_request_url is required"]]

\* agent_endpoint up to the call of run_code_review_agent.
agent_endpoint ==
    /\ pc = "endpoint"
    /\ IF DOMAIN body = {} \/ "pull_request_url" \notin DOMAIN body
       THEN /\ response' = BadRequest
            /\ pc' = "responded"
            /\ UNCHANGED state
       ELSE /\ state' = SessionState(body)
            /\ pc' = "run_start"
            /\ UNCHANGED response
    /\ UNCHANGED <<body, pr_info, events, final_result, started, finished, status>>

----------------------------------------------------------------------------
(* The orchestrator, CodeReviewAgent._run_async_impl *)

\* An orchestrator without the pull_request_url check: a missing URL goes to
\* the parser like any other.
run_start_unchecked ==
    /\ pc = "run_start"
    /\ LET url == Get(state, "pull_request_url", << >>)
       IN  IF ParsePrUrl(url) = NoneV
           THEN /\ events' = Append(events, Event(AgentName, "system", MsgInvalidUrl))
                /\ final_result' = Capture(state, final_result)
                /\ started' = Append(started, VALIDATING)
                /\ finished' = finished \cup {VALIDATING}
                /\ status' = "FAILED"
                /\ pc' = "run_end"
                /\ UNCHANGED <<state, pr_info>>
           ELSE /\ pr_info' = ParsePrUrl(url)
                /\ started' = started \o <<VALIDATING, FETCHING>>
                /\ finished' = finished \cup {VALIDATING}
                /\ status' = "RUNNING"
                /\ pc' = "fetch_pr_details"
                /\ UNCHANGED state
                /\ Emit("assistant", MsgFetching)
    /\ UNCHANGED <<body, response>>

\* Lines 74-110: the pull_request_url check, VALIDATING, and FETCHING's entry.
run_start ==
    /\ pc = "run_start"
    /\ LET url == Get(state, "pull_request_url", << >>)
       IN  IF Len(url) = 0
           THEN Halt(MsgNoUrl) /\ UNCHANGED <<pr_info, finished>>
           ELSE IF ParsePrUrl(url) = NoneV
           THEN /\ events' = Append(events, Event(AgentName, "system", MsgInvalidUrl))
                /\ final_result' = Capture(state, final_result)
                /\ started' = Append(started, VALIDATING)
                /\ finished' = finished \cup {VALIDATING}
                /\ status' = "FAILED"
                /\ pc' = "run_end"
                /\ UNCHANGED <<state, pr_info>>
           ELSE /\ pr_info' = ParsePrUrl(url)
                /\ started' = started \o <<VALIDATING, FETCHING>>
                /\ finished' = finished \cup {VALIDATING}
                /\ status' = "RUNNING"
                /\ pc' = "fetch_pr_details"
                /\ UNCHANGED state
                /\ Emit("assistant", MsgFetching)
    /\ UNCHANGED <<body, response>>

\* A stage's LlmAgent(output_key=key).run_async(ctx), run to its end.
Delegate(stage, name, key, values, next) ==
    \E out \in Outcomes(values) :
        /\ IF out.kind = "raise"
           THEN /\ pc' = "raised"
                /\ status' = "RAISED"
                /\ UNCHANGED <<state, events, final_result, finished>>
           ELSE /\ pc' = next
                /\ finished' = finished \cup {stage}
                /\ UNCHANGED status
                /\ IF out.kind = "stored"
                   THEN /\ state' = Put(state, key, out.value)
                        /\ events' = Append(events, WorkerEvent(name))
                        /\ final_result' = Capture(state', final_result)
                   ELSE UNCHANGED <<state, events, final_result>>
        /\ UNCHANGED <<body, pr_info, response, started>>

\* _fetch_pr_details, lines 211-244.
fetch_pr_details ==
    /\ pc = "fetch_pr_details"
    /\ Delegate(FETCHING, "fetch_pr_details", "pr_details", PrDetailsValues, "fetch_gate")

\* A gate that runs FETCHING again when pr_details is missing.
fetch_gate_retrying ==
    /\ pc = "fetch_gate"
    /\ IF GatePassed("pr_details", state)
       THEN /\ started' = Append(started, ANALYZING)
            /\ pc' = "analyze_code_changes"
            /\ UNCHANGED <<state, status>>
            /\ Emit("assistant", MsgAnalyzing)
       ELSE /\ started' = Append(started, FETCHING)
            /\ pc' = "fetch_pr_details"
            /\ UNCHANGED <<state, status>>
            /\ Emit("assistant", MsgFetching)
    /\ UNCHANGED <<body, pr_info, response, finished>>

\* Lines 115-132: the gate on pr_details, then ANALYZING's entry.
fetch_gate ==
    /\ pc = "fetch_gate"
    /\ IF GatePassed("pr_details", state)
       THEN /\ started' = Append(started, ANALYZING)
            /\ pc' = "analyze_code_changes"
            /\ UNCHANGED <<state, status>>
            /\ Emit("assistant", MsgAnalyzing)
       ELSE Halt(MsgFetchFailed)
    /\ UNCHANGED <<body, pr_info, response, finished>>

\* _analyze_code_changes, lines 246-285.
analyze_code_changes ==
    /\ pc = "analyze_code_changes"
    /\ Delegate(ANALYZING, "analyze_code_changes", "code_analysis", AnalysisValues,
                "analyze_gate")

\* A gate that sends the run back to ANALYZING when code_analysis is missing.
analyze_gate_retrying ==
    /\ pc = "analyze_gate"
    /\ IF GatePassed("code_analysis", state)
       THEN /\ started' = Append(started, GENERATING)
            /\ pc' = "generate_review_comments"
            /\ UNCHANGED <<state, status>>
            /\ Emit("assistant", MsgGenerating)
       ELSE /\ pc' = "analyze_code_changes"
            /\ UNCHANGED <<state, events, final_result, started, status>>
    /\ UNCHANGED <<body, pr_info, response, finished>>

\* Lines 137-154: the gate on code_analysis, then GENERATING's entry.
analyze_gate ==
    /\ pc = "analyze_gate"
    /\ IF GatePassed("code_analysis", state)
       THEN /\ started' = Append(started, GENERATING)
            /\ pc' = "generate_review_comments"
            /\ UNCHANGED <<state, status>>
            /\ Emit("assistant", MsgGenerating)
       ELSE Halt(MsgAnalyzeFailed)
    /\ UNCHANGED <<body, pr_info, response, finished>>

\* _generate_review_comments, lines 287-330: the drafting worker.
generate_review_comments ==
    /\ pc = "generate_review_comments"
    /\ Delegate(GENERATING, "generate_review_comments", "raw_review_comments",
                RawDraftValues, "structure_check")

\* A drafting step that never calls the corrector.
structure_check_skipped ==
    /\ pc = "structure_check"
    /\ pc' = "review_gate"
    /\ UNCHANGED <<body, state, pr_info, events, final_result, response, started,
                   finished, status>>

\* Lines 332-334: the corrector is called only on a stored draft.
structure_check ==
    /\ pc = "structure_check"
    /\ IF "raw_review_comments" \in DOMAIN state
       THEN /\ started' = Append(started, STRUCTURING)
            /\ pc' = "structure_output"
       ELSE /\ pc' = "review_gate"
            /\ UNCHANGED started
    /\ UNCHANGED <<body, state, pr_info, events, final_result, response, finished,
                   status>>

\* A corrector that rewrites the draft under its source key.
structure_output_in_place ==
    /\ pc = "structure_output"
    /\ Delegate(STRUCTURING, "structure_output_raw_review_comments_review_comments",
                "raw_review_comments", {"restructured draft"}, "review_gate")

\* structure_output (utils/structure_output.py): a worker bound to the
\* ReviewResult schema, storing under review_comments.
structure_output ==
    /\ pc = "structure_output"
    /\ Delegate(STRUCTURING, "structure_output_raw_review_comments_review_comments",
                "review_comments", ReviewResults, "review_gate")

\* A gate step that starts POSTING in the background and goes on to FINALIZING
\* without waiting for it.
review_gate_detached ==
    /\ pc = "review_gate"
    /\ IF ~GatePassed("review_comments", state)
       THEN Halt(MsgGenerateFailed)
       ELSE IF PostEnabled(state)
       THEN /\ started' = Append(started, POSTING)
            /\ pc' = "generate_final_result"
            /\ UNCHANGED <<state, status>>
            /\ Emit("assistant", MsgPosting)
       ELSE /\ pc' = "generate_final_result"
            /\ UNCHANGED <<state, events, final_result, started, status>>
    /\ UNCHANGED <<body, pr_info, response, finished>>

\* Lines 159-178: the gate on review_comments, then POSTING's entry if enabled.
review_gate ==
    /\ pc = "review_gate"
    /\ IF ~GatePassed("review_comments", state)
       THEN Halt(MsgGenerateFailed)
       ELSE IF PostEnabled(state)
       THEN /\ started' = Append(started, POSTING)
            /\ pc' = "post_review_comments"
            /\ UNCHANGED <<state, status>>
            /\ Emit("assistant", MsgPosting)
       ELSE /\ pc' = "generate_final_result"
            /\ UNCHANGED <<state, events, final_result, started, status>>
    /\ UNCHANGED <<body, pr_info, response, finished>>

\* A posting stage that clears the request's post_comments flag when done.
post_review_comments_clearing ==
    /\ pc = "post_review_comments"
    /\ Delegate(POSTING, "post_review_comments", "post_comments", {FALSE},
                "generate_final_result")

\* _post_review_comments, lines 337-373.
post_review_comments ==
    /\ pc = "post_review_comments"
    /\ Delegate(POSTING, "post_review_comments", "post_result", PostResultValues,
                "generate_final_result")

\* The fallback of _generate_final_result, lines 385-392.
FinalizeFallback ==
    [review_summary |-> "Code review completed", comments_added |-> << >>,
     issues_found |-> << >>, approval_recommendation |-> "comment",
     success |-> TRUE, error |-> "None"]

\* A finalizer that always substitutes the fallback.
FinalResultAlwaysFallback(st) == FinalizeFallback

\* A finalizer that marks whatever it stores as a success.
FinalResultForcedSuccess(st) ==
    LET review_comments == Get(st, "review_comments", << >>)
    IN  IF DOMAIN review_comments # {}
        THEN [review_comments EXCEPT !.success = TRUE]
        ELSE FinalizeFallback

\* Lines 377-392: what _generate_final_result stores under final_result.
FinalResultOf(st) ==
    LET review_comments == Get(st, "review_comments", << >>)
    IN  IF DOMAIN review_comments # {} THEN review_comments ELSE FinalizeFallback

\* _generate_final_result, lines 375-400.
generate_final_result ==
    /\ pc = "generate_final_result"
    /\ state' = Put(state, "final_result", FinalResultOf(state))
    /\ started' = Append(started, FINALIZING)
    /\ finished' = finished \cup {FINALIZING}
    /\ pc' = "final_event"
    /\ Emit("system", MsgFinalGenerated)
    /\ UNCHANGED <<body, pr_info, response, status>>

\* A closing message that does not look at the result.
SuccessMsgAlways(result) == MsgCompleted

\* Line 190: success_msg.
SuccessMsg(result) == IF result.success THEN MsgCompleted ELSE MsgReviewFailed

\* Lines 188-197: the closing event, then the generator ends.
final_event ==
    /\ pc = "final_event"
    /\ UNCHANGED <<body, state, pr_info, response, started, finished>>
    /\ IF "final_result" \in DOMAIN state
       THEN Emit("assistant", <<SuccessMsg(state["final_result"]), "Summary: ",
                               state["final_result"].review_summary>>)
       ELSE UNCHANGED <<events, final_result>>
    /\ status' = "DONE"
    /\ pc' = "run_end"

----------------------------------------------------------------------------
(* Back in main.py *)

\* run_code_review_agent's substitute for a missing result, lines 90-97.
NoResult ==
    [success |-> FALSE, error |-> "No result generated",
     review_summary |-> "Failed to complete review", comments_added |-> << >>,
     issues_found |-> << >>, approval_recommendation |-> "comment"]

\* A return that substitutes the finalizer's fallback for a missing result.
RunResultFinalizeFallback(captured, st) ==
    LET fr == IF DOMAIN captured = {} THEN Get(st, "final_result", NoneV) ELSE captured
    IN  IF DOMAIN fr # {} THEN fr ELSE FinalizeFallback

\* A return that substitutes nothing for a missing result.
RunResultNoFallback(captured, st) ==
    IF DOMAIN captured = {} THEN Get(st, "final_result", NoneV) ELSE captured

\* Lines 84-97: the value run_code_review_agent returns.
RunResult(captured, st) ==
    LET fr == IF DOMAIN captured = {} THEN Get(st, "final_result", NoneV) ELSE captured
    IN  IF DOMAIN fr # {} THEN fr ELSE NoResult

\* run_code_review_agent returns and agent_endpoint answers, lines 127-129.
run_return ==
    /\ pc = "run_end"
    /\ response' = [status |-> 200, body |-> RunResult(final_result, state)]
    /\ pc' = "responded"
    /\ UNCHANGED <<body, state, pr_info, events, final_result, started, finished,
                   status>>

\* agent_endpoint's except clause, lines 131-135.
endpoint_except ==
    /\ pc = "raised"
    /\ response' = [status |-> 500,
                    body |-> [success |-> FALSE, error |-> "exception message"]]
    /\ pc' = "responded"
    /\ UNCHANGED <<body, state, pr_info, events, final_result, started, finished,
                   status>>

\* The pipeline steps leave the sandbox and the fleet alone.
OthersIdle == UNCHANGED <<sandbox, fleet>>

Next ==
    \/ agent_endpoint /\ OthersIdle
    \/ run_start /\ OthersIdle
    \/ fetch_pr_details /\ OthersIdle
    \/ fetch_gate /\ OthersIdle
    \/ analyze_code_changes /\ OthersIdle
    \/ analyze_gate /\ OthersIdle
    \/ generate_review_comments /\ OthersIdle
    \/ structure_check /\ OthersIdle
    \/ structure_output /\ OthersIdle
    \/ review_gate /\ OthersIdle
    \/ post_review_comments /\ OthersIdle
    \/ generate_final_result /\ OthersIdle
    \/ final_event /\ OthersIdle
    \/ run_return /\ OthersIdle
    \/ endpoint_except /\ OthersIdle

Spec == Init /\ [][Next]_vars

----------------------------------------------------------------------------
(* Progress: every delegation that is awaited completes, and the event loop
   runs a coroutine that is ready *)

\* A few requests of each kind: no URL, an empty one, one that does not
\* parse, one on another host, and one that parses.
LiveBodies ==
    OptionProfiles \cup
    {("pull_request_url" :> u) @@ p :
        u \in {<< >>, <<GithubHead, "a">>,
               <<"https://gitlab.com/", "a", Slash, "a", PullSep, "7">>,
               <<GithubHead, "a", Slash, "a", PullSep, "7">>},
        p \in OptionProfiles}

LiveInit ==
    /\ body \in LiveBodies
    /\ pc = "endpoint"
    /\ state = << >>
    /\ pr_info = NoneV
    /\ events = << >>
    /\ final_result = NoneV
    /\ response = NoneV
    /\ started = << >>
    /\ finished = {}
    /\ status = "INIT"
    /\ sandbox = Idle
    /\ fleet = Idle

LiveSpec == LiveInit /\ [][Next]_vars /\ WF_vars(Next)

----------------------------------------------------------------------------
(* Request normalisation on its own: every criteria mapping and threshold *)

\* Every mapping from some of the known keys and one unknown key to a flag.
CriteriaMappings ==
    UNION {[D -> JsonFlags] : D \in SUBSET (KnownCriteria \cup {"naming"})}

\* Thresholds a request may name: the valid ones, an unknown one, the empty one.
Thresholds == ValidThresholds \cup {"urgent", ""}

ValidateBodies ==
    LET url == "pull_request_url" :> <<GithubHead, "a", Slash, "a", PullSep, "7">>
    IN  {url @@ ("review_criteria" :> c) : c \in CriteriaMappings}
        \cup {url @@ ("severity_threshold" :> t) : t \in Thresholds}
        \cup {url @@ [review_criteria |-> c, severity_threshold |-> t] :
                 c \in {m \in CriteriaMappings : Cardinality(DOMAIN m) <= 1},
                 t \in Thresholds}

ValidateInit ==
    /\ body \in ValidateBodies
    /\ pc = "endpoint"
    /\ state = << >>
    /\ pr_info = NoneV
    /\ events = << >>
    /\ final_result = NoneV
    /\ response = NoneV
    /\ started = << >>
    /\ finished = {}
    /\ status = "INIT"
    /\ sandbox = Idle
    /\ fleet = Idle

ValidateNext == agent_endpoint /\ OthersIdle

ValidateSpec == ValidateInit /\ [][ValidateNext]_vars

----------------------------------------------------------------------------
(* The command sandbox, tools/bash_tool.py *)

MaxAllowed == 2

MaxTrunc == 2

MaxOut == 3

\* Line 7.
truncate_str == "<truncated>"

\* Names a configuration may list.
Commands == {"gh", "curl", "jq"}

\* BashTools(...) arguments: allowed_commands (None and [] are both << >>),
\* truncate_length (<< >> for None, <<n>> for the integer n), working_dir.
Configs ==
    [allowed_commands : SeqsUpTo(Commands, MaxAllowed),
     truncate_length : {<< >>} \cup {<<n>> : n \in 0..MaxTrunc},
     working_dir : {"None", "/repo"}]

\* Argument lists a worker may pass.
ArgLists == {<< >>, <<"pr", "view">>}

\* f"{args}": the repr of a list of strings.
RECURSIVE ReprItems(_)
ReprItems(args) ==
    IF Len(args) = 0 THEN << >>
    ELSE IF Len(args) = 1 THEN <<"'", args[1], "'">>
    ELSE <<"'", args[1], "'", ", ">> \o ReprItems(Tail(args))

ReprList(args) == <<"[">> \o ReprItems(args) \o <<"]">>

\* Exit statuses of a child: success, failure, killed by a signal.
ReturnCodes == {0, 1, -9}

\* Bytes a child may write: 0x61 ('a'), and 0xC3 0xA9, which together encode
\* U+00E9 and are invalid on their own.
Bytes == {"61", "c3", "a9"}

Streams == SeqsUpTo(Bytes, MaxOut)

\* bytes.decode("utf-8"): the characters, or ok = FALSE for UnicodeDecodeError.
RECURSIVE Decode(_)
Decode(bytes) ==
    IF Len(bytes) = 0 THEN [ok |-> TRUE, chars |-> << >>]
    ELSE IF bytes[1] = "61"
    THEN LET rest == Decode(Tail(bytes))
         IN  [ok |-> rest.ok, chars |-> <<"a">> \o rest.chars]
    ELSE IF bytes[1] = "c3" /\ Len(bytes) >= 2 /\ bytes[2] = "a9"
    THEN LET rest == Decode(Tail(Tail(bytes)))
         IN  [ok |-> rest.ok, chars |-> <<"U+00E9">> \o rest.chars]
    ELSE [ok |-> FALSE, chars |-> << >>]

\* Lines 49-50: the limit applies when truncate_length is truthy.
Truncate(output, truncate_length) ==
    IF truncate_length # << >> /\ truncate_length[1] # 0
       /\ Len(output) > truncate_length[1]
    THEN SubSeq(output, 1, truncate_length[1]) \o <<truncate_str>>
    ELSE output

\* A message cut to one character of stderr, with the marker.
ErrorStringTruncated(command, args, returncode, err_msg) ==
    <<"Error: ", "Command ", command, " ">> \o ReprList(args)
        \o <<" failed with return code ", ToString(returncode), " and stderr: ">>
        \o (IF Len(err_msg) > 1 THEN <<err_msg[1], truncate_str>> ELSE err_msg)

\* Lines 45-47: the pieces of the returned f-string.
ErrorString(command, args, returncode, err_msg) ==
    <<"Error: ", "Command ", command, " ">> \o ReprList(args)
        \o <<" failed with return code ", ToString(returncode), " and stderr: ">>
        \o err_msg

Returned(value) == [kind |-> "return", value |-> value]

Raised(error) == [kind |-> "raise", error |-> error]

\* A factory whose capabilities all run a shell.
create_shell_cli_tool(command) ==
    [name |-> <<command, "_cli">>, command |-> "sh"]

\* _create_runtime_cli_tool, lines 28-65: the closure's name and the command
\* it is bound to.
create_runtime_cli_tool(command) ==
    [name |-> <<command, "_cli">>, command |-> command]

\* The state after BashTools.__init__, lines 24-26.
ToolInit ==
    /\ PipelineIdle
    /\ fleet = Idle
    /\ \E cfg \in Configs :
          sandbox = [pc |-> "constructed",
                     allowed_commands |-> cfg.allowed_commands,
                     truncate_length |-> cfg.truncate_length,
                     working_dir |-> cfg.working_dir,
                     tools |-> << >>, call |-> NoneV, proc |-> NoneV,
                     ret |-> NoneV]

\* get_tools, lines 67-74.
get_tools ==
    /\ sandbox.pc = "constructed"
    /\ sandbox' = [sandbox EXCEPT
                     !.pc = "ready",
                     !.tools = [i \in 1..Len(sandbox.allowed_commands) |->
                                  create_runtime_cli_tool(sandbox.allowed_commands[i])]]
    /\ UNCHANGED <<pipelineVars, fleet>>

\* cli_tool up to the await of create_subprocess_exec, lines 33-41: the child
\* starts, or the call raises when the executable or the working directory is
\* not there.
cli_tool_start ==
    /\ sandbox.pc = "ready"
    /\ \E i \in 1..Len(sandbox.tools), args \in ArgLists, startable \in BOOLEAN :
          LET call == [tool |-> i, args |-> args]
          IN  IF startable
              THEN sandbox' = [sandbox EXCEPT
                                 !.pc = "running", !.call = call,
                                 !.proc = [command |-> sandbox.tools[i].command,
                                           args |-> args,
                                           cwd |-> sandbox.working_dir]]
              ELSE sandbox' = [sandbox EXCEPT
                                 !.pc = "done", !.call = call,
                                 !.ret = Raised("FileNotFoundError")]
    /\ UNCHANGED <<pipelineVars, fleet>>

\* What cli_tool does with a finished child, lines 42-52.
CliToolResult(command, args, returncode, stdout, stderr, truncate_length) ==
    IF returncode # 0
    THEN IF Decode(stderr).ok
         THEN Returned(ErrorString(command, args, returncode, Decode(stderr).chars))
         ELSE Raised("UnicodeDecodeError")
    ELSE IF Decode(stdout).ok
         THEN Returned(Truncate(Decode(stdout).chars, truncate_length))
         ELSE Raised("UnicodeDecodeError")

\* cli_tool from process.communicate() on, lines 42-52.
cli_tool_finish ==
    /\ sandbox.pc = "running"
    /\ \E returncode \in ReturnCodes, stdout \in Streams, stderr \in Streams :
          /\ IF returncode = 0 THEN stderr \in {<< >>, <<"61">>}
                               ELSE stdout = <<"61", "61">>
          /\ sandbox' = [sandbox EXCEPT
                           !.pc = "done",
                           !.proc = [command |-> sandbox.proc.command,
                                     args |-> sandbox.proc.args,
                                     cwd |-> sandbox.proc.cwd,
                                     returncode |-> returncode,
                                     stdout |-> stdout, stderr |-> stderr],
                           !.ret = CliToolResult(sandbox.proc.command,
                                                 sandbox.proc.args, returncode,
                                                 stdout, stderr,
                                                 sandbox.truncate_length)]
    /\ UNCHANGED <<pipelineVars, fleet>>

ToolNext ==
    \/ get_tools
    \/ cli_tool_start
    \/ cli_tool_finish

ToolSpec == ToolInit /\ [][ToolNext]_vars

----------------------------------------------------------------------------
(* Two requests served by one process: their steps interleave at awaits *)

\* Session ids create_session may hand out (uuids; two runners may, in
\* principle, hand out the same one).
SessionIds == {"s1", "s2"}

\* A process with one module-level runner for every request.
RunnerShared(r) == "runner 1"

\* main.py 57-60: each call of run_code_review_agent builds its own
\* InMemoryRunner, and with it its own session service.
RunnerOf(r) == IF r = 1 THEN "runner 1" ELSE "runner 2"

Runners == {"runner 1", "runner 2"}

\* The requests the two clients send.
FleetBodies ==
    LET url == <<GithubHead, "a", Slash, "a", PullSep, "7">>
    IN  [first |-> {[pull_request_url |-> url,
                     review_criteria |-> [security |-> "false"],
                     post_comments |-> TRUE],
                    [pull_request_url |-> <<GithubHead, "a">>]},
         second |-> {[pull_request_url |-> url, severity_threshold |-> "high"],
                     << >>}]

\* Everything a coroutine keeps across an await, the session apart.
Locals ==
    [body |-> body, pc |-> pc, pr_info |-> pr_info, events |-> events,
     final_result |-> final_result, response |-> response, started |-> started,
     finished |-> finished, status |-> status]

FleetInit ==
    /\ body \in FleetBodies.first
    /\ pc = "endpoint"
    /\ state = << >>
    /\ pr_info = NoneV
    /\ events = << >>
    /\ final_result = NoneV
    /\ response = NoneV
    /\ started = << >>
    /\ finished = {}
    /\ status = "INIT"
    /\ sandbox = Idle
    /\ \E b \in FleetBodies.second, s \in SessionIds :
          fleet = [cur |-> 1,
                   sid |-> <<"s1", s>>,
                   parked |-> [body |-> b, pc |-> "endpoint", pr_info |-> NoneV,
                               events |-> << >>, final_result |-> NoneV,
                               response |-> NoneV, started |-> << >>,
                               finished |-> {}, status |-> "INIT"],
                   parked_state |-> << >>,
                   services |-> [n \in Runners |-> [i \in SessionIds |-> << >>]]]

\* The running request's session lives in its runner's session service, under
\* its session id (main.py 62-66, 77, 84).
FleetSync ==
    /\ fleet' = IF state' = << >> THEN fleet
                ELSE [fleet EXCEPT
                        !.services[RunnerOf(fleet.cur)][fleet.sid[fleet.cur]] = state']
    /\ UNCHANGED sandbox

\* An await hands control to the other request's coroutine: the running one
\* keeps its locals, the other one resumes with its own and with the session
\* its runner's service holds under its id.
yield_to_other ==
    /\ fleet.parked.pc # "responded"
    /\ LET o == 3 - fleet.cur
       IN  /\ body' = fleet.parked.body
           /\ pc' = fleet.parked.pc
           /\ pr_info' = fleet.parked.pr_info
           /\ events' = fleet.parked.events
           /\ final_result' = fleet.parked.final_result
           /\ response' = fleet.parked.response
           /\ started' = fleet.parked.started
           /\ finished' = fleet.parked.finished
           /\ status' = fleet.parked.status
           /\ state' = fleet.services[RunnerOf(o)][fleet.sid[o]]
           /\ fleet' = [fleet EXCEPT !.cur = o, !.parked = Locals,
                                     !.parked_state = state]
    /\ UNCHANGED sandbox

FleetNext ==
    \/ agent_endpoint /\ FleetSync
    \/ run_start /\ FleetSync
    \/ fetch_pr_details /\ FleetSync
    \/ fetch_gate /\ FleetSync
    \/ analyze_code_changes /\ FleetSync
    \/ analyze_gate /\ FleetSync
    \/ generate_review_comments /\ FleetSync
    \/ structure_check /\ FleetSync
    \/ structure_output /\ FleetSync
    \/ review_gate /\ FleetSync
    \/ post_review_comments /\ FleetSync
    \/ generate_final_result /\ FleetSync
    \/ final_event /\ FleetSync
    \/ run_return /\ FleetSync
    \/ endpoint_except /\ FleetSync
    \/ yield_to_other

TwoRunSpec == FleetInit /\ [][FleetNext]_vars

----------------------------------------------------------------------------
(* Properties *)

StageOrder == <<VALIDATING, FETCHING, ANALYZING, GENERATING, STRUCTURING, POSTING,
                FINALIZING>>

Rank(s) == CHOOSE i \in DOMAIN StageOrder : StageOrder[i] = s

LaterStages(s) == {t \in Range(StageOrder) : Rank(t) > Rank(s)}

\* The run halted in FAILED after stage s: nothing later was started.
HaltedAfter(s) ==
    /\ status = "FAILED"
    /\ pc \in {"run_end", "responded"}
    /\ LaterStages(s) \cap Range(started) = {}
    /\ "final_result" \notin DOMAIN state

\* GENERATING+STRUCTURING has finished: the corrector returned, or the drafting
\* worker returned without a draft so that the corrector is not called.
DraftingFinished ==
    \/ STRUCTURING \in finished
    \/ /\ GENERATING \in finished
       /\ "raw_review_comments" \notin DOMAIN state
       /\ pc # "structure_check"

\* C1: once a gated stage has finished with its output key absent from the
\* context store and its gate has been evaluated, the run is FAILED and no
\* later stage (POSTING and FINALIZING included) has been started; a FAILED
\* run only returns.
C1_GateFailureHalts ==
    /\ (FETCHING \in finished /\ "pr_details" \notin DOMAIN state /\ pc # "fetch_gate")
           => HaltedAfter(FETCHING)
    /\ (ANALYZING \in finished /\ "code_analysis" \notin DOMAIN state
           /\ pc # "analyze_gate")
           => HaltedAfter(ANALYZING)
    /\ (DraftingFinished /\ "review_comments" \notin DOMAIN state /\ pc # "review_gate")
           => HaltedAfter(STRUCTURING)
    /\ status = "FAILED" => pc \in {"run_end", "responded"}

C1_Witness ==
    /\ pc = "responded"
    /\ status = "FAILED"
    /\ FETCHING \in finished
    /\ "pr_details" \notin DOMAIN state

\* C2: the stages started form a run of the fixed order from VALIDATING on
\* (POSTING may be left out), each but the last started has finished, and at
\* most one started stage is unfinished.
C2_StagesSequential ==
    /\ started # << >> => started[1] = VALIDATING
    /\ \A i \in 1..(Len(started) - 1) :
           /\ \/ Rank(started[i + 1]) = Rank(started[i]) + 1
              \/ started[i] = STRUCTURING /\ started[i + 1] = FINALIZING
           /\ started[i] \in finished
    /\ finished \subseteq Range(started)
    /\ Cardinality(Range(started) \ finished) <= 1

C2_Witness ==
    /\ started = StageOrder
    /\ status = "DONE"

\* The pattern https://<host>/<owner>/<repo>/pull/<digits>, matched in full.
MatchesPrUrlPattern(url) ==
    /\ Len(url) > 0
    /\ url[1] \in Heads
    /\ PathMatch(url).ok
    /\ PathMatch(url).d = Len(url)

\* C3: a run whose pull_request_url does not match the PR-URL pattern in full
\* has no PRReference, has emitted a diagnostic and has started no stage beyond
\* VALIDATING.
C3_NonMatchingUrlRejected ==
    (/\ pc \notin {"endpoint", "run_start"}
     /\ "pull_request_url" \in DOMAIN state
     /\ ~MatchesPrUrlPattern(state["pull_request_url"]))
    => /\ pr_info = NoneV
       /\ events # << >>
       /\ Range(started) \subseteq {VALIDATING}

FiveFields == {"review_summary", "comments_added", "issues_found",
               "approval_recommendation", "success"}

\* C4 as stated: a FAILED run returns the fallback with success = true.
C4_FailedRunReturnsSuccess ==
    (pc = "responded" /\ status = "FAILED")
    => /\ response.body.approval_recommendation = "comment"
       /\ response.body.comments_added = << >>
       /\ response.body.issues_found = << >>
       /\ response.body.success = TRUE

\* C4, amended: a FAILED run returns, with status 200, run_code_review_agent's
\* substitute: success = false, error "No result generated", summary "Failed to
\* complete review", no comments, no issues, recommendation "comment".
C4_FailedRunReturnsNoResult ==
    (pc = "responded" /\ status = "FAILED")
    => /\ response.status = 200
       /\ response.body = NoResult
       /\ response.body.success = FALSE
       /\ response.body.approval_recommendation = "comment"
       /\ response.body.comments_added = << >>
       /\ response.body.issues_found = << >>

C4_Witness ==
    /\ pc = "responded"
    /\ status = "FAILED"
    /\ FETCHING \in finished
    /\ "pr_details" \notin DOMAIN state
    /\ response.body.success = FALSE

\* C5 as stated: every returned payload carries the five ReviewResult fields.
C5_EveryPayloadWellFormed ==
    pc = "responded" => FiveFields \subseteq DOMAIN response.body

\* C5, amended: every payload returned with status 200 (a run that ended DONE
\* or FAILED) carries the five ReviewResult fields; the 400 and 500 payloads
\* carry success = false and error only.
C5_PayloadShape ==
    pc = "responded"
    => /\ response.status \in {200, 400, 500}
       /\ response.status = 200 <=> status \in {"DONE", "FAILED"}
       /\ response.status = 500 <=> status = "RAISED"
       /\ IF response.status = 200
          THEN FiveFields \subseteq DOMAIN response.body
          ELSE /\ DOMAIN response.body = {"success", "error"}
               /\ response.body.success = FALSE

C5_Witness ==
    /\ pc = "responded"
    /\ status = "DONE"
    /\ response.status = 200
    /\ response.body \in ReviewResults

\* C6: after FINALIZING final_result is present; it is the value under
\* review_comments, unchanged, when that is a validated ReviewResult, and the
\* fixed fallback otherwise.
C6_FinalResultVerbatimOrFallback ==
    FINALIZING \in finished
    => /\ "final_result" \in DOMAIN state
       /\ state["final_result"] =
              IF "review_comments" \in DOMAIN state
                 /\ state["review_comments"] \in ReviewResults
              THEN state["review_comments"]
              ELSE [review_summary |-> "Code review completed",
                    comments_added |-> << >>, issues_found |-> << >>,
                    approval_recommendation |-> "comment", success |-> TRUE,
                    error |-> "None"]

C6_Witness ==
    /\ FINALIZING \in finished
    /\ "review_comments" \in DOMAIN state
    /\ state["final_result"] = state["review_comments"]
    /\ state["final_result"].approval_recommendation = "request_changes"

EarlierGatesPassed == {"pr_details", "code_analysis", "review_comments"} \subseteq DOMAIN state

\* C8: POSTING has been started exactly when the earlier gates have passed and
\* post_comments is truthy; and once POSTING has been started the run, when it
\* is over, has run FINALIZING and is not FAILED.
C8_PostingNeverFatal ==
    /\ (POSTING \in Range(started))
           <=> (EarlierGatesPassed /\ PostEnabled(state) /\ pc # "review_gate")
    /\ (POSTING \in Range(started) /\ pc = "responded")
           => (FINALIZING \in finished /\ status = "DONE")

FailureTexts == {MsgNoUrl, MsgInvalidUrl, MsgFetchFailed, MsgAnalyzeFailed,
                 MsgGenerateFailed}

\* An orchestrator event that summarizes the outcome of the run.
IsSummary(e) ==
    /\ e.author = AgentName
    /\ \/ e.text \in FailureTexts
       \/ e.text[1] \in {MsgCompleted, MsgReviewFailed}

\* C9: a run that is DONE or FAILED has exactly one summarizing event, by the
\* orchestrator, and it is the last event of the run; on DONE it says
\* 'completed successfully' when final_result.success holds and 'failed'
\* otherwise, on FAILED it is a failure diagnostic.
C9_OneFinalSummaryEvent ==
    status \in {"DONE", "FAILED"}
    => /\ events # << >>
       /\ IsSummary(Last(events))
       /\ Cardinality({i \in DOMAIN events : IsSummary(events[i])}) = 1
       /\ status = "FAILED" => Last(events).text \in FailureTexts
       /\ status = "DONE"
             => /\ "final_result" \in DOMAIN state
                /\ Last(events).text[1] =
                       IF state["final_result"].success THEN MsgCompleted
                       ELSE MsgReviewFailed

C9_Witness ==
    /\ status = "DONE"
    /\ pc = "responded"
    /\ state["final_result"].success = FALSE
    /\ Last(events).text[1] = MsgReviewFailed

\* The texts of the events the orchestrator itself has emitted, in order.
OwnTexts == [i \in {j \in DOMAIN events : events[j].author = AgentName} |-> events[i].text]

EntryTexts(s) ==
    CASE s = FETCHING -> {MsgFetching}
      [] s = ANALYZING -> {MsgAnalyzing}
      [] s = GENERATING -> {MsgGenerating}
      [] s = POSTING -> {MsgPosting}
      [] OTHER -> {}

ExitTexts(s) ==
    CASE s = VALIDATING -> {MsgInvalidUrl}
      [] s = FETCHING -> {MsgFetchFailed}
      [] s = ANALYZING -> {MsgAnalyzeFailed}
      [] s = GENERATING -> {MsgGenerateFailed}
      [] s = STRUCTURING -> {MsgGenerateFailed}
      [] s = FINALIZING -> {MsgFinalGenerated}
      [] OTHER -> {}

Emitted(texts) == \E i \in DOMAIN OwnTexts : OwnTexts[i] \in texts

Times(text) == Cardinality({i \in DOMAIN OwnTexts : OwnTexts[i] = text})

\* C10 as stated: every stage that has run to its end (its gate evaluated) has
\* an orchestrator event for its entry and one for its exit.
C10_EntryAndExitEvents ==
    \A s \in finished :
        pc \notin {"fetch_gate", "analyze_gate", "structure_check", "review_gate"}
        => Emitted(EntryTexts(s)) /\ Emitted(ExitTexts(s))

\* C10, amended: FETCHING, ANALYZING, GENERATING and POSTING each have exactly
\* one orchestrator event, emitted on entry; VALIDATING, STRUCTURING and
\* FINALIZING have none on entry.  On exit the orchestrator emits an event only
\* for FINALIZING ('Final result generated') and, for the other stages, only
\* the failure diagnostic of a failed check or gate: a stage whose gate passes,
\* and POSTING, have no exit event.
C10_StageEvents ==
    /\ \A s \in {FETCHING, ANALYZING, GENERATING, POSTING} :
           Times(CHOOSE t \in EntryTexts(s) : TRUE) = IF s \in Range(started) THEN 1 ELSE 0
    /\ Times(MsgFinalGenerated) = IF FINALIZING \in finished THEN 1 ELSE 0
    /\ \A t \in FailureTexts : Times(t) = IF status = "FAILED" /\ Last(events).text = t
                                          THEN 1 ELSE 0
    /\ status = "FAILED" /\ started # << >>
           => Last(events).text \in ExitTexts(Last(started))
    /\ Cardinality(DOMAIN OwnTexts) =
           Cardinality(Range(started) \cap {FETCHING, ANALYZING, GENERATING, POSTING})
           + (IF FINALIZING \in finished THEN 1 ELSE 0)
           + (IF status \in {"FAILED", "DONE"} THEN 1 ELSE 0)

C10_Witness ==
    /\ status = "DONE"
    /\ POSTING \in finished
    /\ FINALIZING \in finished
    /\ Cardinality(DOMAIN OwnTexts) = 6


----------------------------------------------------------------------------
(* The HTTP surface *)

LacksUrl == DOMAIN body = {} \/ "pull_request_url" \notin DOMAIN body

ErrorPayload(b) == DOMAIN b = {"success", "error"} /\ b.success = FALSE

\* C15: the endpoint answers 400 with {success: false, error} and starts no run
\* exactly when the body is missing or has no pull_request_url; 500 with
\* {success: false, error} exactly when an exception was raised, which always
\* ends in an answer; 200 in every other case, failed runs included.
C15_EndpointStatus ==
    /\ LacksUrl => /\ pc \in {"endpoint", "responded"}
                   /\ state = << >> /\ started = << >> /\ events = << >>
                   /\ status = "INIT"
    /\ status = "RAISED" => pc \in {"raised", "responded"}
    /\ pc = "raised" => ENABLED endpoint_except
    /\ pc = "responded" =>
          /\ response.status = (IF LacksUrl THEN 400
                                ELSE IF status = "RAISED" THEN 500 ELSE 200)
          /\ response.status \in {400, 500} => ErrorPayload(response.body)

C15_Witness ==
    /\ pc = "responded"
    /\ status = "FAILED"
    /\ response.status = 200
    /\ Len(started) >= 2


----------------------------------------------------------------------------
(* The result of a successful run *)

RunSucceeded == pc = "responded" /\ status = "DONE"

\* C18 as stated: a run that passed every gate and reached FINALIZING returns a
\* result whose success field is true.
C18_SuccessfulRunReturnsSuccess == RunSucceeded => response.body.success = TRUE

\* C18, amended: a run that passed every gate and reached FINALIZING returns,
\* with status 200, the ReviewResult the corrector stored under review_comments,
\* unchanged; its success field is the corrector's, and the closing event reads
\* 'completed successfully' or 'failed' accordingly.
C18_SuccessfulRunReturnsCorrectorResult ==
    RunSucceeded =>
        /\ response.status = 200
        /\ "review_comments" \in DOMAIN state
        /\ response.body = state["review_comments"]
        /\ response.body \in ReviewResults
        /\ Last(events).text[1] =
               IF state["review_comments"].success THEN MsgCompleted
               ELSE MsgReviewFailed

C18_Witness ==
    /\ RunSucceeded
    /\ FINALIZING \in finished
    /\ response.body.success = FALSE
    /\ response.body = state["review_comments"]


----------------------------------------------------------------------------
(* The context store over a run *)

\* The key each gate checks, and the stages that start only behind that gate.
GateKeys ==
    [pr_details |-> {ANALYZING, GENERATING, STRUCTURING, POSTING, FINALIZING},
     code_analysis |-> {GENERATING, STRUCTURING, POSTING, FINALIZING},
     review_comments |-> {POSTING, FINALIZING}]

\* C20: no step of a run removes a key from the context store (keys are added
\* or overwritten only), and after every step the key of each gate that was
\* passed is present.
C20_StoreOnlyGrows ==
    [][/\ DOMAIN state \subseteq DOMAIN state'
       /\ \A k \in DOMAIN GateKeys :
              Range(started') \cap GateKeys[k] # {} => k \in DOMAIN state']_vars

C20_Witness ==
    /\ status = "DONE"
    /\ POSTING \in finished
    /\ DOMAIN state = {"pull_request_url", "review_criteria", "severity_threshold",
                       "post_comments", "pr_details", "code_analysis",
                       "raw_review_comments", "review_comments", "post_result",
                       "final_result"}


----------------------------------------------------------------------------
(* Request normalisation *)

\* The boolean a JSON flag stands for: true, and every non-empty string.
BooleanValueOf(v) == v \in {"true", "'no'"}

\* C16: whatever review_criteria mapping the request carries (none and the
\* empty one included), the mapping placed in the context store has exactly
\* the five known keys; a supplied known key carries the boolean value of what
\* was supplied, a missing one is true, and unknown keys are dropped.
C16_CriteriaNormalised ==
    pc = "run_start" =>
        LET given == Get(body, "review_criteria", << >>)
            kept == state["review_criteria"]
        IN  /\ DOMAIN kept = {"code_quality", "security", "performance", "style",
                               "documentation"}
            /\ \A k \in DOMAIN kept :
                   kept[k] = IF k \in DOMAIN given THEN BooleanValueOf(given[k])
                             ELSE TRUE

C16_Witness ==
    /\ pc = "run_start"
    /\ "review_criteria" \in DOMAIN body
    /\ DOMAIN body["review_criteria"] = {"naming", "security", "style"}
    /\ body["review_criteria"]["security"] = "0"
    /\ body["review_criteria"]["style"] = "'no'"
    /\ state["review_criteria"]["security"] = FALSE
    /\ state["review_criteria"]["style"] = TRUE

\* C17: the threshold placed in the context store is the requested one when
\* that is low, medium, high or critical, and low otherwise (also when none is
\* requested); so it is always one of the four.
C17_ThresholdNormalised ==
    pc = "run_start" =>
        LET kept == state["severity_threshold"]
        IN  /\ kept \in {"low", "medium", "high", "critical"}
            /\ kept = IF "severity_threshold" \in DOMAIN body
                         /\ body["severity_threshold"]
                                \in {"low", "medium", "high", "critical"}
                      THEN body["severity_threshold"]
                      ELSE "low"

C17_Witness ==
    /\ pc = "run_start"
    /\ "severity_threshold" \in DOMAIN body
    /\ body["severity_threshold"] = "urgent"
    /\ state["severity_threshold"] = "low"


----------------------------------------------------------------------------
(* The command sandbox *)

\* C11: get_tools returns one capability per entry of allowed_commands, named
\* '<command>_cli' and bound to that command, and nothing else; so every
\* child that is started runs a listed command, and with no allowed_commands
\* there is no capability and no invocation.
C11_ClosedWorld ==
    /\ sandbox.pc = "constructed" => sandbox.tools = << >>
    /\ sandbox.pc # "constructed" =>
          /\ Len(sandbox.tools) = Len(sandbox.allowed_commands)
          /\ \A i \in 1..Len(sandbox.tools) :
                /\ sandbox.tools[i].name = <<sandbox.allowed_commands[i], "_cli">>
                /\ sandbox.tools[i].command = sandbox.allowed_commands[i]
    /\ sandbox.proc # NoneV =>
          /\ sandbox.call.tool \in 1..Len(sandbox.allowed_commands)
          /\ sandbox.proc.command = sandbox.allowed_commands[sandbox.call.tool]
    /\ sandbox.allowed_commands = << >> =>
          sandbox.tools = << >> /\ sandbox.call = NoneV

C11_Witness ==
    /\ sandbox.pc = "done"
    /\ sandbox.allowed_commands = <<"gh", "jq">>
    /\ sandbox.call.tool = 2
    /\ sandbox.proc # NoneV
    /\ sandbox.proc.command = "jq"

ChildExited == sandbox.pc = "done" /\ sandbox.proc # NoneV

\* C12: an invocation whose child exits with a non-zero status returns the
\* string 'Error: Command <name> <args> failed with return code <code> and
\* stderr: <stderr>' and nothing of the child's stdout.
C12_NonZeroExitReturnsErrorString ==
    (ChildExited /\ sandbox.proc.returncode # 0) =>
        sandbox.ret =
            [kind |-> "return",
             value |-> <<"Error: ", "Command ", sandbox.proc.command, " ">>
                         \o ReprList(sandbox.proc.args)
                         \o <<" failed with return code ",
                              ToString(sandbox.proc.returncode), " and stderr: ">>
                         \o Decode(sandbox.proc.stderr).chars]

\* C13: an invocation whose command fails, by a non-zero exit or by not
\* starting at all, ends with a returned string and never with an exception.
C13_FailureNeverRaises ==
    (sandbox.pc = "done" /\ (sandbox.proc = NoneV \/ sandbox.proc.returncode # 0))
        => sandbox.ret.kind = "return"

\* C14: with truncate_length = N >= 0 configured, a successful command whose
\* stdout has more than N characters returns its first N characters followed
\* by '<truncated>', and one with N or fewer characters returns it unmodified.
C14_TruncatedAtN ==
    (/\ ChildExited
     /\ sandbox.proc.returncode = 0
     /\ sandbox.truncate_length # << >>
     /\ Decode(sandbox.proc.stdout).ok)
    => LET N == sandbox.truncate_length[1]
           output == Decode(sandbox.proc.stdout).chars
       IN  sandbox.ret =
               [kind |-> "return",
                value |-> IF Len(output) > N
                          THEN SubSeq(output, 1, N) \o <<"<truncated>">>
                          ELSE output]


----------------------------------------------------------------------------
(* Two interleaved runs *)

\* The request fields a run's context store was created with; a request
\* without pull_request_url has no store.
OwnRequest(b, st) ==
    IF "pull_request_url" \in DOMAIN b
    THEN st # << >> =>
             \A k \in DOMAIN SessionState(b) :
                 k \in DOMAIN st /\ st[k] = SessionState(b)[k]
    ELSE st = << >>

\* C19: whatever the interleaving, the session the suspended run will resume
\* with is the one it left, key for key and value for value, and each run's
\* store carries its own request; the suspended run's trace, events and result
\* are its locals, which only its own steps change.
C19_RunsIndependent ==
    LET o == 3 - fleet.cur
    IN  /\ fleet.parked_state # << >> =>
              fleet.services[RunnerOf(o)][fleet.sid[o]] = fleet.parked_state
        /\ state # << >> =>
              fleet.services[RunnerOf(fleet.cur)][fleet.sid[fleet.cur]] = state
        /\ OwnRequest(body, state)
        /\ OwnRequest(fleet.parked.body, fleet.parked_state)
        /\ (fleet.parked.pc = "responded" /\ fleet.parked.response.status = 200) =>
              fleet.parked.response.body =
                  RunResult(fleet.parked.final_result, fleet.parked_state)

C19_Witness ==
    /\ fleet.sid[1] = fleet.sid[2]
    /\ fleet.cur = 1
    /\ status = "DONE"
    /\ fleet.parked.status = "RUNNING"
    /\ "code_analysis" \in DOMAIN fleet.parked_state
    /\ "final_result" \in DOMAIN state
    /\ state["review_criteria"] # fleet.parked_state["review_criteria"]


----------------------------------------------------------------------------
(* No retry *)

FailureEvents == {i \in DOMAIN OwnTexts : OwnTexts[i] \in FailureTexts}

\* C21: in a run no stage, and so no worker delegation, is started twice; a
\* run that halted on a missing output has emitted exactly one failure event,
\* its last event, and the stage whose output is missing is the last one
\* started.
C21_NoRetry ==
    /\ \A i, j \in DOMAIN started : started[i] = started[j] => i = j
    /\ Cardinality(FailureEvents) <= 1
    /\ status = "FAILED" =>
          /\ Cardinality(FailureEvents) = 1
          /\ Last(events).text \in FailureTexts
          /\ Last(events).author = AgentName
          /\ started # << >> =>
                LET s == Last(started)
                IN  /\ s \notin {POSTING, FINALIZING}
                    /\ Last(events).text \in ExitTexts(s)
    /\ status # "FAILED" => FailureEvents = {}

C21_Witness ==
    /\ status = "FAILED"
    /\ pc = "responded"
    /\ started = <<VALIDATING, FETCHING, ANALYZING>>
    /\ ANALYZING \in finished
    /\ "code_analysis" \notin DOMAIN state
    /\ Last(events).text = MsgAnalyzeFailed


----------------------------------------------------------------------------
(* A run without a pull request URL *)

UrlMissing == state # << >> /\ Len(Get(state, "pull_request_url", << >>)) = 0

\* C22: a run whose context store has no or an empty pull_request_url is,
\* after the orchestrator's first step, FAILED with the one diagnostic 'No
\* pull_request_url found ...' as its only event; no stage has been started,
\* no worker has been invoked, no PRReference derived, and the context store
\* is the one the run was created with.
C22_MissingUrlHalts ==
    UrlMissing =>
        /\ pc \in {"run_start", "run_end", "responded"}
        /\ started = << >> /\ finished = {} /\ pr_info = NoneV
        /\ state = SessionState(body)
        /\ events = IF pc = "run_start" THEN << >>
                    ELSE <<[author |-> AgentName, role |-> "system",
                            text |-> MsgNoUrl]>>
        /\ status = IF pc = "run_start" THEN "INIT" ELSE "FAILED"

C22_Witness ==
    /\ UrlMissing
    /\ pc = "responded"
    /\ status = "FAILED"
    /\ Len(events) = 1
    /\ response.body.error = "No result generated"


----------------------------------------------------------------------------
(* The request during a run *)

RequestKeys == {"pull_request_url", "review_criteria", "severity_threshold",
                "post_comments"}

\* C23: at every point of a run, its end included, the context store holds
\* under pull_request_url, review_criteria, severity_threshold and
\* post_comments the values the run was created with.
C23_RequestImmutable ==
    state # << >> =>
        /\ RequestKeys \subseteq DOMAIN state
        /\ \A k \in RequestKeys : state[k] = SessionState(body)[k]

C23_Witness ==
    /\ pc = "responded"
    /\ status = "DONE"
    /\ POSTING \in finished
    /\ "post_result" \in DOMAIN state
    /\ state["post_comments"] = TRUE
    /\ state["review_criteria"]["security"] = FALSE
    /\ state["severity_threshold"] = "high"


----------------------------------------------------------------------------
(* Deriving the PRReference *)

Validated == pc \notin {"endpoint", "run_start"} /\ "pull_request_url" \in DOMAIN state

\* The ways to read url as <head><owner>/<repo>/pull/<number>, with owner and
\* repo free of slashes and number all digits: the references it spells.
ReferencesOf(url) ==
    {[owner |-> SubSeq(url, 2, i), repo |-> SubSeq(url, i + 2, j),
      pr_number |-> SubSeq(url, j + 2, Len(url))] :
        <<i, j>> \in {p \in (2..Len(url)) \X (2..Len(url)) :
                        /\ p[1] + 2 <= p[2] /\ p[2] + 2 <= Len(url)
                        /\ url[p[1] + 1] = "/" /\ url[p[2] + 1] = "/pull/"
                        /\ \A k \in 2..p[1] : url[k] \notin {"/", "/pull/"}
                        /\ \A k \in (p[1] + 2)..p[2] : url[k] \notin {"/", "/pull/"}
                        /\ \A k \in (p[2] + 2)..Len(url) : url[k] \in DigitTokens}}

\* C24 as stated: for a URL https://<host>/<owner>/<repo>/pull/<number>, any
\* host, VALIDATING succeeds and the PRReference is {owner, repo, pr_number}.
C24_AnyHostUrlParsed ==
    Validated =>
        \A ref \in ReferencesOf(state["pull_request_url"]) :
            pr_info = ref /\ FETCHING \in Range(started)

\* C24, amended: for a URL https://github.com/<owner>/<repo>/pull/<number>
\* VALIDATING succeeds and the PRReference is {owner, repo, pr_number}, the
\* same for the same URL; a URL of that form on another host fails
\* validation.
C24_GithubUrlParsed ==
    Validated =>
        \A ref \in ReferencesOf(state["pull_request_url"]) :
            IF state["pull_request_url"][1] = "https://github.com/"
            THEN pr_info = ref /\ FETCHING \in Range(started)
            ELSE /\ pr_info = NoneV
                 /\ status = "FAILED"
                 /\ started = <<VALIDATING>>

C24_Witness ==
    /\ Validated
    /\ state["pull_request_url"] =
           <<"https://github.com/", "a", "7", "/", "7", "/pull/", "7">>
    /\ pr_info = [owner |-> <<"a", "7">>, repo |-> <<"7">>, pr_number |-> <<"7">>]
    /\ FETCHING \in finished


----------------------------------------------------------------------------
(* Termination *)

RunOver == status \in {"DONE", "FAILED"}

\* C25: assuming every delegation completes, that is returns (a delegation
\* that raises instead aborts the run, status RAISED), every run that starts
\* eventually reaches DONE or FAILED; and from DONE or FAILED on no stage is
\* started, no key is written and the status stays.
C25_RunTerminates ==
    /\ [](pc = "run_start" => <>(RunOver \/ status = "RAISED"))
    /\ [][RunOver => /\ started' = started
                     /\ finished' = finished
                     /\ state' = state
                     /\ status' = status]_vars

C25_Witness ==
    /\ status = "DONE"
    /\ pc = "responded"
    /\ started = StageOrder


----------------------------------------------------------------------------
(* The corrector's frame *)

\* C26: the corrector is started only with raw_review_comments present; a
\* drafting stage that stored nothing leads, without the corrector, to FAILED
\* at the review_comments gate; and the corrector's step leaves every key but
\* review_comments as it was and adds no other key.
C26_CorrectorFrame ==
    /\ [](/\ STRUCTURING \in Range(started) =>
                "raw_review_comments" \in DOMAIN state
          /\ (/\ GENERATING \in finished
              /\ "raw_review_comments" \notin DOMAIN state
              /\ pc \notin {"structure_check", "review_gate"})
             => /\ STRUCTURING \notin Range(started)
                /\ "review_comments" \notin DOMAIN state
                /\ status = "FAILED"
                /\ Last(events).text = MsgGenerateFailed)
    /\ [][pc = "structure_output" =>
             /\ DOMAIN state' \subseteq DOMAIN state \cup {"review_comments"}
             /\ \A k \in DOMAIN state \ {"review_comments"} :
                    k \in DOMAIN state' /\ state'[k] = state[k]]_vars

C26_Witness ==
    /\ pc = "review_gate"
    /\ STRUCTURING \in finished
    /\ "review_comments" \in DOMAIN state
    /\ state["raw_review_comments"] = "raw draft"


----------------------------------------------------------------------------
(* final_result and the gates *)

\* C27: whenever final_result is in the context store, so are pr_details,
\* code_analysis and review_comments, FINALIZING has been started and the run
\* is not FAILED; final_result is written by FINALIZING's step only, and
\* only while it is absent.
C27_FinalResultImpliesGates ==
    /\ []("final_result" \in DOMAIN state =>
              /\ "pr_details" \in DOMAIN state
              /\ "code_analysis" \in DOMAIN state
              /\ "review_comments" \in DOMAIN state
              /\ FINALIZING \in Range(started)
              /\ status # "FAILED")
    /\ [][Get(state', "final_result", NoneV) # Get(state, "final_result", NoneV)
            => /\ pc = "generate_final_result"
               /\ "final_result" \notin DOMAIN state
               /\ started' = Append(started, FINALIZING)]_vars

C27_Witness ==
    /\ "final_result" \in DOMAIN state
    /\ status = "DONE"
    /\ POSTING \notin Range(started)
    /\ state["final_result"].success = FALSE


----------------------------------------------------------------------------
(* The result and POSTING *)

\* The result a run with these review_comments returns when POSTING is off.
ResultWithoutPosting(review_comments) ==
    IF DOMAIN review_comments # {} THEN review_comments
    ELSE [review_summary |-> "Code review completed", comments_added |-> << >>,
          issues_found |-> << >>, approval_recommendation |-> "comment",
          success |-> TRUE, error |-> "None"]

\* C28: a run whose first four stages stored their outputs returns, and
\* writes under final_result, the result determined by review_comments alone,
\* whatever post_comments is and whatever POSTING did; and review_comments is
\* what the corrector stored.
C28_ResultIndependentOfPosting ==
    (pc = "responded" /\ "review_comments" \in DOMAIN state)
    => /\ "final_result" \in DOMAIN state
       /\ state["final_result"] = ResultWithoutPosting(state["review_comments"])
       /\ response.status = 200
       /\ response.body = ResultWithoutPosting(state["review_comments"])


----------------------------------------------------------------------------
(* Where truncation applies *)

ReturnedString == ChildExited /\ sandbox.ret.kind = "return"

\* C29: a string returned with no truncate_length configured is the whole
\* stdout, without the marker; and a string returned for a non-zero exit ends
\* with the whole stderr and holds no marker, whatever truncate_length is and
\* however long stderr is.
C29_TruncationOnSuccessOnly ==
    ReturnedString =>
        LET value == sandbox.ret.value
            out == Decode(sandbox.proc.stdout).chars
            err == Decode(sandbox.proc.stderr).chars
        IN  /\ (sandbox.proc.returncode = 0 /\ sandbox.truncate_length = << >>)
                => value = out
            /\ sandbox.proc.returncode # 0 =>
                   /\ "<truncated>" \notin Range(value)
                   /\ Len(value) >= Len(err)
                   /\ SubSeq(value, Len(value) - Len(err) + 1, Len(value)) = err
                   /\ value[Len(value) - Len(err)] = " and stderr: "

C29_Witness ==
    /\ ReturnedString
    /\ sandbox.proc.returncode # 0
    /\ sandbox.truncate_length = <<1>>
    /\ Len(Decode(sandbox.proc.stderr).chars) = 3
    /\ Len(sandbox.ret.value) > 3

====
